---- MODULE Spec2Model ----
(***************************************************************************)
(* Model of tue_carrot_planner's CarrotPlanner (src/src/carrot_planner.cpp) *)
(*                                                                         *)
(* Fixed-point rendering of the C++ doubles.  Every length, velocity,      *)
(* acceleration and angle is an integer number of thousandths of the SI    *)
(* unit (mm, mm/s, mm/s^2, mrad, mrad/s, mrad/s^2), so the formulas of the *)
(* source carry over literally.  Time is counted in clock ticks of         *)
(* 1/TicksPerSec seconds; wherever the source uses dt (seconds) the model  *)
(* uses dt/TicksPerSec, and comparisons are cross-multiplied so that they  *)
(* are decided exactly.  The inputs offered by the environment are chosen  *)
(* so that every square root and every division of a tick is exact (see    *)
(* GoalInputs); no rounding enters the checked properties.                 *)
(***************************************************************************)
EXTENDS Integers, Sequences, FiniteSets, TLC

VARIABLES
    now,                    \* ros::Time::now(), in clock ticks
    t_last_cmd_vel_,        \* double t_last_cmd_vel_, in clock ticks
    laser_data_available_,  \* bool laser_data_available_
    laser_scan_,            \* sensor_msgs::LaserScan laser_scan_
    goal_,                  \* tf::Vector3 goal_
    goal_angle_,            \* double goal_angle_
    last_cmd_vel_,          \* geometry_msgs::Twist last_cmd_vel_
    trace,                  \* what the most recent handler call did
    ref                     \* the most recent determineReference call

vars == <<now, t_last_cmd_vel_, laser_data_available_, laser_scan_, goal_,
          goal_angle_, last_cmd_vel_, trace, ref>>

(***************************************************************************)
(* Parameters (defaults of the constructor) and literals of the source     *)
(***************************************************************************)
MAX_VEL == 500                  \* 0.5 m/s
MAX_ACC == 150                  \* 0.15 m/s^2
MAX_VEL_THETA == 300            \* 0.3 rad/s
MAX_ACC_THETA == 250            \* 0.25 rad/s^2
GAIN_NUM == 9                   \* GAIN = 0.9 = GAIN_NUM / GAIN_DEN
GAIN_DEN == 10
MIN_ANGLE_NUM == 314159         \* MIN_ANGLE = 3.14159/14 rad
MIN_ANGLE_DEN == 1400           \*           = 314159/1400 mrad
DISTANCE_VIRTUAL_WALL == 500    \* 0.50 m
RADIUS_ROBOT == 250             \* 0.25 m
MIN_RANGE == 10                 \* the literal 0.01 of isClearLine
NEARBY == 1500                  \* the literal 1.5 of determineDesiredVelocity
TicksPerSec == 10               \* resolution of the clock: one tick is 0.1 s

tracking_frame_ == "/base_link"
front_laser_frame == "/front_laser"

(***************************************************************************)
(* Bounds of the model                                                     *)
(***************************************************************************)
MaxNow == 42                    \* the clock stops advancing at this tick
LiveMaxNow == 66                \* the same, in the specification SpecLive

(***************************************************************************)
(* Arithmetic helpers                                                      *)
(***************************************************************************)
Abs(x) == IF x < 0 THEN -x ELSE x
Min(a, b) == IF a < b THEN a ELSE b
Max(a, b) == IF a > b THEN a ELSE b

\* The header's sign(): -1, 0 or 1.
Sign(x) == IF x > 0 THEN 1 ELSE IF x < 0 THEN -1 ELSE 0

\* Conversion of the quotient a/b of two doubles to int: truncation toward 0.
TruncDiv(a, b) == IF a >= 0 THEN a \div b ELSE -((-a) \div b)

\* Rounding of the quotient a/b to the nearest integer, halves away from 0.
RoundDiv(a, b) == IF a >= 0 THEN (2 * a + b) \div (2 * b)
                            ELSE -((2 * (-a) + b) \div (2 * b))

\* The largest r in lo..hi with r * r <= n, by bisection.  Each midpoint and
\* each argument is bound by \E-style enumeration of a one-element set, which
\* makes it a value before it is used.
RECURSIVE SqrtSearch(_, _, _)
SqrtSearch(n, lo, hi) ==
    IF lo >= hi THEN lo
    ELSE CHOOSE r \in { IF mid * mid <= n THEN SqrtSearch(n, mid, hi)
                                          ELSE SqrtSearch(n, lo, mid - 1)
                        : mid \in {(lo + hi + 1) \div 2} } : TRUE

\* sqrt(n), truncated to the grid
Sqrt(n) == CHOOSE r \in { SqrtSearch(v, 0, Min(v, 46340)) : v \in {n} } : TRUE

(***************************************************************************)
(* tf::Vector3 and geometry_msgs::Twist                                    *)
(***************************************************************************)
Zero3 == <<0, 0, 0>>
ZeroTwist == [linear |-> Zero3, angular |-> Zero3]

Dot(a, b) == a[1] * b[1] + a[2] * b[2] + a[3] * b[3]
Length2(a) == Dot(a, a)
Length(a) == Sqrt(Length2(a))
Add(a, b) == <<a[1] + b[1], a[2] + b[2], a[3] + b[3]>>
Sub(a, b) == <<a[1] - b[1], a[2] - b[2], a[3] - b[3]>>

\* v.normalized() * s (a, k and len: v, s and v.length(), each computed once)
NormalizedTimes(v, s) ==
    CHOOSE r \in { <<TruncDiv(a[1] * k, len), TruncDiv(a[2] * k, len), TruncDiv(a[3] * k, len)>>
                   : a \in {v}, k \in {s}, len \in {Length(v)} } : TRUE

Cross(a, b) == <<a[2] * b[3] - a[3] * b[2],
                 a[3] * b[1] - a[1] * b[3],
                 a[1] * b[2] - a[2] * b[1]>>
Collinear(a, b) == Cross(a, b) = Zero3

(***************************************************************************)
(* Inputs offered by the environment                                       *)
(***************************************************************************)
\* Goal poses: frame, position, and the yaw tf::getYaw extracts from the
\* orientation.  Positions lie on the lines through the origin along
\* (1,0,0), (3,4,0)/5 and (3,0,4)/5, at distance 75 or 2000.
Goals ==
    { [frame_id |-> "/base_link", pos |-> <<2000, 0, 0>>,    yaw |-> 0],
      [frame_id |-> "/base_link", pos |-> <<2000, 0, 0>>,    yaw |-> 300],
      [frame_id |-> "/base_link", pos |-> <<-2000, 0, 0>>,   yaw |-> -300],
      [frame_id |-> "/base_link", pos |-> <<75, 0, 0>>,      yaw |-> 224],
      [frame_id |-> "/base_link", pos |-> <<1200, 1600, 0>>, yaw |-> 225],
      [frame_id |-> "/base_link", pos |-> <<1200, 0, 1600>>, yaw |-> 1500],
      [frame_id |-> "/base_link", pos |-> <<0, 0, 0>>,       yaw |-> -1500],
      [frame_id |-> "/odom",      pos |-> <<2000, 0, 0>>,    yaw |-> 300] }

\* The goals offered in the current state: those whose direction is collinear
\* with the translational velocity last commanded.  On these every square
\* root and quotient of determineDesiredVelocity is exact on the grid.
GoalInputs == { g \in Goals : Collinear(g.pos, last_cmd_vel_.linear) }

Scan(frame, ranges, incr) ==
    [frame_id |-> frame, ranges |-> ranges, angle_increment |-> incr]

\* Laser scans: 8 beams; an obstacle (Hit, 0.3 m) at one beam, or none; readings
\* at the thresholds 0, 0.005, 0.01 and 0.5 m; two angular increments.
Scans ==
    LET Far == 2000
        Hit == 300
    IN  { Scan("/front_laser", <<Hit, Far, Far, Far, Far, Far, Far, Far>>, 200),
          Scan("/front_laser", <<Far, Far, Far, Hit, Far, Far, Far, Far>>, 200),
          Scan("/front_laser", <<Far, Far, 0, 5, 10, 500, Far, Far>>, 200),
          Scan("/front_laser", <<Far, Far, Far, Far, Far, Far, Hit, Far>>, 180),
          Scan("/rear_laser",  <<Hit, Hit, Hit, Hit, Hit, Hit, Hit, Hit>>, 200) }

\* What a read of laser_scan_.ranges[j] with j < 0 may return (the read is
\* outside the vector: any value).
OutOfBoundsValues == {2000, 300}

\* The ros::Time at construction.
StartTimes == {40}

\* goal_ and goal_angle_ are not initialised by the constructor.
Uninitialised == { [pos |-> Zero3, angle |-> 0], [pos |-> <<7, -3, 2>>, angle |-> 9] }

(***************************************************************************)
(* CarrotPlanner::setGoal                                                  *)
(***************************************************************************)
\* fabs(goal_angle_) < MIN_ANGLE
BelowMinAngle(angle) == Abs(angle) * MIN_ANGLE_DEN < MIN_ANGLE_NUM

\* Mutant of setGoal: the pose is stored before the frame is checked.
setGoal_StoreBeforeCheck(goal, old_goal, old_angle) ==
    [ok |-> goal.frame_id = tracking_frame_,
     goal_ |-> <<goal.pos[1], goal.pos[2], goal.pos[3]>>,
     goal_angle_ |-> IF BelowMinAngle(goal.yaw) THEN 0 ELSE goal.yaw,
     carrot |-> IF goal.frame_id = tracking_frame_
                THEN << <<goal.pos[1], goal.pos[2]>> >> ELSE <<>>]

\* Mutant of setGoal: no dead-band on the yaw.
setGoal_NoDeadBand(goal, old_goal, old_angle) ==
    IF goal.frame_id # tracking_frame_
    THEN [ok |-> FALSE, goal_ |-> old_goal, goal_angle_ |-> old_angle, carrot |-> <<>>]
    ELSE [ok |-> TRUE,
          goal_ |-> <<goal.pos[1], goal.pos[2], goal.pos[3]>>,
          goal_angle_ |-> goal.yaw,
          carrot |-> << <<goal.pos[1], goal.pos[2]>> >>]

\* The result of setGoal(goal) and the goal_, goal_angle_ it leaves, given
\* the ones it found; carrot is what publishCarrot publishes (the end point).
setGoal(goal, old_goal, old_angle) ==
    IF goal.frame_id # tracking_frame_
    THEN [ok |-> FALSE, goal_ |-> old_goal, goal_angle_ |-> old_angle, carrot |-> <<>>]
    ELSE [ok |-> TRUE,
          goal_ |-> <<goal.pos[1], goal.pos[2], goal.pos[3]>>,
          goal_angle_ |-> IF BelowMinAngle(goal.yaw) THEN 0 ELSE goal.yaw,
          carrot |-> << <<goal.pos[1], goal.pos[2]>> >>]

(***************************************************************************)
(* CarrotPlanner::isClearLine                                              *)
(***************************************************************************)
\* atan2(y, x) in micro-radians, tabulated for the ratios y/x that occur
Atan2(y, x) ==
    CASE y = 0 /\ x > 0 -> 0
      [] 2 * y = x      -> 463648
      [] y = x          -> 785398

\* int num_incr = goal_angle_/laser_scan_.angle_increment
num_incr(scan, goal_angle) == TruncDiv(goal_angle, scan.angle_increment)

\* int index_beam_obst = num_readings/2 + num_incr
index_beam_obst(scan, goal_angle) == Len(scan.ranges) \div 2 + num_incr(scan, goal_angle)

\* int d_step = dth/laser_scan_.angle_increment, dth = atan2(RADIUS_ROBOT, DISTANCE_VIRTUAL_WALL)
d_step(scan) ==
    TruncDiv(Atan2(RADIUS_ROBOT, DISTANCE_VIRTUAL_WALL), 1000 * scan.angle_increment)

\* first value of the loop variable j
LoopStart(scan, goal_angle) == Min(index_beam_obst(scan, goal_angle) - d_step(scan), 0)

\* Mutant of LoopEnd: the half width d_step is left out.
LoopEnd_NoHalfWidth(scan, goal_angle) == index_beam_obst(scan, goal_angle)

\* the bound the loop variable j stays below
LoopEnd(scan, goal_angle) == index_beam_obst(scan, goal_angle) + d_step(scan)

\* laser_scan_.ranges[j]: beam j of the scan (the C++ index is 0-based); a
\* read below the vector returns oob
ReadRange(scan, j, oob) == IF j >= 0 THEN scan.ranges[j + 1] ELSE oob

\* dist_to_obstacle > 0.01 && dist_to_obstacle < DISTANCE_VIRTUAL_WALL
TooClose(dist) == dist > MIN_RANGE /\ dist < DISTANCE_VIRTUAL_WALL

\* the for loop from j on: FALSE at the first beam that is too close
RECURSIVE ClearFrom(_, _, _, _)
ClearFrom(j, end, scan, oob) ==
    IF j >= end THEN TRUE
    ELSE IF j < Len(scan.ranges) /\ TooClose(ReadRange(scan, j, oob)) THEN FALSE
    ELSE ClearFrom(j + 1, end, scan, oob)

\* the indices j at which the for loop from j on reads laser_scan_.ranges[j]
RECURSIVE IndicesRead(_, _, _, _)
IndicesRead(j, end, scan, oob) ==
    IF j >= end THEN {}
    ELSE IF j < Len(scan.ranges)
    THEN {j} \cup (IF TooClose(ReadRange(scan, j, oob)) THEN {}
                   ELSE IndicesRead(j + 1, end, scan, oob))
    ELSE IndicesRead(j + 1, end, scan, oob)

\* Mutant of isClearLine: without laser data the path counts as clear.
isClearLine_NoDataClear(available, scan, goal_angle, oob) ==
    IF ~available THEN TRUE
    ELSE ClearFrom(LoopStart(scan, goal_angle), LoopEnd(scan, goal_angle), scan, oob)

isClearLine(available, scan, goal_angle, oob) ==
    IF ~available THEN FALSE
    ELSE ClearFrom(LoopStart(scan, goal_angle), LoopEnd(scan, goal_angle), scan, oob)

(***************************************************************************)
(* CarrotPlanner::determineReference                                       *)
(***************************************************************************)
\* max_acc * dt, dt in clock ticks
AccTimesDt(max_acc, dt) == (max_acc * dt) \div TicksPerSec

\* x > 0.5 * max_acc * dt (x > EPS), and its negation x <= EPS
AboveEps(x, max_acc, dt) == 2 * TicksPerSec * x > max_acc * dt

\* x < 0.5 * max_acc * dt
BelowEps(x, max_acc, dt) == 2 * TicksPerSec * x < max_acc * dt

\* Mutant of Moves: the stand-still test is left out.
Moves_Always(error_x, vel, max_acc, dt) == TRUE

\* lines 276-281: move, or stand still
Moves(error_x, vel, max_acc, dt) ==
    Abs(vel) # 0 \/ AboveEps(Abs(error_x), max_acc, dt)

\* dec_dist = 0.5*max_acc*(vel_mag/max_acc)^2; fabs(dec_dist) >= fabs(delta_x)
DecDistReaches(error_x, vel, max_acc) ==
    Abs(vel) * Abs(vel) >= 2 * max_acc * Abs(error_x)

\* Mutant of Branch: the "setpoint behind" test of line 297 is left out.
Branch_NoSetpointBehind(error_x, vel, max_vel, max_acc, dt) ==
    IF ~Moves(error_x, vel, max_acc, dt) THEN "still"
    ELSE IF DecDistReaches(error_x, vel, max_acc) THEN "dec"
    ELSE IF ~DecDistReaches(error_x, vel, max_acc) /\ Abs(vel) >= max_vel THEN "con"
    ELSE "acc"

\* lines 285-308: which of still, dec, con, acc is set
Branch(error_x, vel, max_vel, max_acc, dt) ==
    IF ~Moves(error_x, vel, max_acc, dt) THEN "still"
    ELSE IF DecDistReaches(error_x, vel, max_acc) THEN "dec"
    ELSE IF Sign(vel) * error_x < 0 /\ Abs(vel) # 0 THEN "dec"
    ELSE IF ~DecDistReaches(error_x, vel, max_acc) /\ Abs(vel) >= max_vel THEN "con"
    ELSE "acc"

\* Mutant of NewVelMag: the accelerate branch does not clamp to max_vel.
NewVelMag_AccUnclamped(branch, vel_mag, max_vel, max_acc, dt) ==
    CASE branch = "acc" -> vel_mag + AccTimesDt(max_acc, dt)
      [] branch = "con" -> vel_mag
      [] branch = "dec" ->
            LET m == Max(vel_mag - AccTimesDt(max_acc, dt), 0)
            IN  IF BelowEps(m, max_acc, dt) THEN 0 ELSE m
      [] OTHER -> vel_mag

\* lines 310-330: vel_mag after the branch's update
NewVelMag(branch, vel_mag, max_vel, max_acc, dt) ==
    CASE branch = "acc" -> Min(vel_mag + AccTimesDt(max_acc, dt), max_vel)
      [] branch = "con" -> vel_mag
      [] branch = "dec" ->
            LET m == Max(vel_mag - AccTimesDt(max_acc, dt), 0)
            IN  IF BelowEps(m, max_acc, dt) THEN 0 ELSE m
      [] OTHER -> vel_mag

determineReference(error_x, vel, max_vel, max_acc, dt) ==
    LET move == Moves(error_x, vel, max_acc, dt)
        dir == Sign(IF move THEN error_x ELSE 0)
        branch == Branch(error_x, vel, max_vel, max_acc, dt)
    IN  dir * NewVelMag(branch, Abs(vel), max_vel, max_acc, dt)

(***************************************************************************)
(* CarrotPlanner::determineDesiredVelocity                                 *)
(***************************************************************************)
\* Mutant of v_desired_norm: the cap at MAX_VEL is left out.
v_desired_norm_Uncapped(error_lin) ==
    IF Length2(error_lin) > 0
    THEN (GAIN_NUM * Sqrt(2 * Length(error_lin) * MAX_ACC)) \div GAIN_DEN
    ELSE 0

\* v_desired_norm: min(MAX_VEL, GAIN * sqrt(2 * error_lin_norm * MAX_ACC)), or 0
v_desired_norm(error_lin) ==
    IF Length2(error_lin) > 0
    THEN Min(MAX_VEL, (GAIN_NUM * Sqrt(2 * Length(error_lin) * MAX_ACC)) \div GAIN_DEN)
    ELSE 0

\* vel_desired: error_lin.normalized() (or zero) times v_desired_norm
vel_desired(error_lin) ==
    IF Length2(error_lin) > 0
    THEN NormalizedTimes(error_lin, v_desired_norm(error_lin))
    ELSE Zero3

\* Mutant of AccBoundViolated: every nonzero vel_diff counts as a violation.
AccBoundViolated_Always(vel_diff, dt) == Length2(vel_diff) > 0

\* acc_desired > MAX_ACC, acc_desired = vel_diff.length() / dt; with dt = 0
\* the quotient is +inf (greater) for a nonzero vel_diff and NaN (not greater)
\* for a zero one
AccBoundViolated(vel_diff, dt) ==
    IF dt = 0 THEN Length2(vel_diff) > 0
    ELSE Length2(vel_diff) * TicksPerSec * TicksPerSec > (MAX_ACC * dt) * (MAX_ACC * dt)

\* Mutant of LimitedVelocity: the acceleration bound is not applied.
LimitedVelocity_Unlimited(error_lin, current_vel_trans, dt) == vel_desired(error_lin)

\* cmd_vel.linear, lines 233-244, given vel_desired (des)
LimitedTo(des, error_lin, current_vel_trans, dt) ==
    LET vel_diff == Sub(des, current_vel_trans)
    IN  IF AccBoundViolated(vel_diff, dt)
        THEN Add(current_vel_trans, NormalizedTimes(vel_diff, AccTimesDt(MAX_ACC, dt)))
        ELSE IF Length2(<<error_lin[1], error_lin[2], 0>>) < NEARBY * NEARBY
        THEN des        \* vel_desired * 1.0
        ELSE des

\* cmd_vel.linear, lines 222-244: vel_desired is computed once
LimitedVelocity(error_lin, current_vel_trans, dt) ==
    CHOOSE r \in { LimitedTo(des, error_lin, current_vel_trans, dt)
                   : des \in {vel_desired(error_lin)} } : TRUE

\* Mutant of determineDesiredVelocity: the rotation is limited by the
\* translational MAX_VEL.
determineDesiredVelocity_WrongLimit(dt, goal, goal_angle, last_cmd_vel) ==
    [linear  |-> LimitedVelocity(goal, last_cmd_vel.linear, dt),
     angular |-> <<0, 0, determineReference(goal_angle, last_cmd_vel.angular[3],
                                            MAX_VEL, MAX_ACC_THETA, dt)>>]

\* the cmd_vel determineDesiredVelocity(dt, cmd_vel) leaves
determineDesiredVelocity(dt, goal, goal_angle, last_cmd_vel) ==
    [linear  |-> LimitedVelocity(goal, last_cmd_vel.linear, dt),
     angular |-> <<0, 0, determineReference(goal_angle, last_cmd_vel.angular[3],
                                            MAX_VEL_THETA, MAX_ACC_THETA, dt)>>]

(***************************************************************************)
(* CarrotPlanner::computeVelocityCommand                                   *)
(***************************************************************************)
\* double time = ros::Time::now().toSec() + ros::Time::now().toNSec() / 1e9
TimeRead(clock) == clock + clock

\* dt, lines 83-86
ElapsedTime(time, t_last) == IF t_last > 0 THEN time - t_last ELSE 0

\* Mutant of GatedGoal: the goal is kept when the path is not clear.
GatedGoal_Ungated(clear, goal) == goal

\* goal_ after lines 90-97
GatedGoal(clear, goal) == IF clear THEN goal ELSE Zero3

\* Mutant of computeVelocityCommand: the command is not stored as the last
\* command.
computeVelocityCommand_NoStore(clock, t_last, available, scan, goal, goal_angle, last_cmd_vel, oob) ==
    LET time == TimeRead(clock)
        dt == ElapsedTime(time, t_last)
        After(clear) ==
            LET gated == GatedGoal(clear, goal)
                cmd_vel == determineDesiredVelocity(dt, gated, goal_angle, last_cmd_vel)
            IN  [ret |-> TRUE, time |-> time, dt |-> dt, clear |-> clear,
                 goal_ |-> gated, cmd_vel |-> cmd_vel, last_cmd_vel_ |-> last_cmd_vel]
    IN  CHOOSE r \in { After(clear) : clear \in {isClearLine(available, scan, goal_angle, oob)} } : TRUE

\* The effect of computeVelocityCommand(cmd_vel); goal_norm and goal_norm_msg
\* (lines 101-111) are computed and never used.  isClearLine is called once:
\* After(clear) is the rest of the function, given what it returned.
computeVelocityCommand(clock, t_last, available, scan, goal, goal_angle, last_cmd_vel, oob) ==
    LET time == TimeRead(clock)
        dt == ElapsedTime(time, t_last)
        After(clear) ==
            LET gated == GatedGoal(clear, goal)
                cmd_vel == determineDesiredVelocity(dt, gated, goal_angle, last_cmd_vel)
            IN  [ret |-> TRUE, time |-> time, dt |-> dt, clear |-> clear,
                 goal_ |-> gated, cmd_vel |-> cmd_vel, last_cmd_vel_ |-> cmd_vel]
    IN  CHOOSE r \in { After(clear) : clear \in {isClearLine(available, scan, goal_angle, oob)} } : TRUE

(***************************************************************************)
(* State machine                                                           *)
(***************************************************************************)
NoGoal == [frame_id |-> "", pos |-> Zero3, yaw |-> 0]
NoScan == Scan("", <<>>, 0)
NoRef == [error_x |-> 0, vel |-> 0, max_vel |-> 0, max_acc |-> 0, dt |-> 0,
          out |-> 0, done |-> FALSE]

\* trace: op, the handler that ran last; goal_in / scan_in, its argument; ret,
\* what MoveToGoal returned; published, the messages it sent on /cmd_vel;
\* carrot, the markers it sent; set_ok, set_goal, set_angle: the result of
\* setGoal and the goal_, goal_angle_ right after it; dt and clear: the dt and
\* the isClearLine result of computeVelocityCommand; prev, last_cmd_vel_ when
\* the handler started.
NoTrace ==
    [op |-> "none", goal_in |-> NoGoal, scan_in |-> NoScan, ret |-> FALSE,
     published |-> <<>>, carrot |-> <<>>, set_ok |-> FALSE, set_goal |-> Zero3,
     set_angle |-> 0, dt |-> 0, clear |-> FALSE, prev |-> ZeroTwist]

\* The state the constructor leaves (lines 3-4); the ROS messages
\* last_cmd_vel_ and laser_scan_ are zero-initialised.
Init ==
    /\ now \in StartTimes
    /\ t_last_cmd_vel_ = now
    /\ laser_data_available_ = FALSE
    /\ laser_scan_ = NoScan
    /\ \E u \in Uninitialised : goal_ = u.pos /\ goal_angle_ = u.angle
    /\ last_cmd_vel_ = ZeroTwist
    /\ trace = NoTrace
    /\ ref = NoRef

\* The clock advances by one tick.
Advance ==
    /\ now < MaxNow
    /\ now' = now + 1
    /\ UNCHANGED <<t_last_cmd_vel_, laser_data_available_, laser_scan_, goal_,
                   goal_angle_, last_cmd_vel_, trace, ref>>

\* Mutant of laserScanCallBack: the frame of the scan is not checked.
laserScanCallBack_AnyFrame(scan) ==
    /\ laser_scan_' = scan /\ laser_data_available_' = TRUE
    /\ trace' = [NoTrace EXCEPT !.op = "laserScanCallBack", !.scan_in = scan,
                                !.prev = last_cmd_vel_]
    /\ UNCHANGED <<now, t_last_cmd_vel_, goal_, goal_angle_, last_cmd_vel_, ref>>

\* CarrotPlanner::laserScanCallBack
laserScanCallBack(scan) ==
    /\ IF scan.frame_id = front_laser_frame
       THEN laser_scan_' = scan /\ laser_data_available_' = TRUE
       ELSE UNCHANGED <<laser_scan_, laser_data_available_>>
    /\ trace' = [NoTrace EXCEPT !.op = "laserScanCallBack", !.scan_in = scan,
                                !.prev = last_cmd_vel_]
    /\ UNCHANGED <<now, t_last_cmd_vel_, goal_, goal_angle_, last_cmd_vel_, ref>>

\* CarrotPlanner::MoveToGoal; oob is what reads below laser_scan_.ranges return
MoveToGoal(goal, oob) ==
    \E set \in {setGoal(goal, goal_, goal_angle_)} :
    \E cvc \in {computeVelocityCommand(now, t_last_cmd_vel_, laser_data_available_,
                                       laser_scan_, set.goal_, set.goal_angle_,
                                       last_cmd_vel_, oob)} :
        LET called == [NoTrace EXCEPT !.op = "MoveToGoal", !.goal_in = goal,
                                      !.prev = last_cmd_vel_, !.set_ok = set.ok,
                                      !.set_goal = set.goal_, !.set_angle = set.goal_angle_,
                                      !.carrot = set.carrot]
        IN  IF ~set.ok
            THEN /\ goal_' = set.goal_
                 /\ goal_angle_' = set.goal_angle_
                 /\ trace' = called
                 /\ UNCHANGED <<now, t_last_cmd_vel_, laser_data_available_, laser_scan_,
                                last_cmd_vel_, ref>>
            ELSE /\ goal_' = cvc.goal_
                 /\ goal_angle_' = set.goal_angle_
                 /\ t_last_cmd_vel_' = cvc.time
                 /\ last_cmd_vel_' = cvc.last_cmd_vel_
                 /\ trace' = [called EXCEPT !.ret = cvc.ret,
                                            !.published = IF cvc.ret THEN <<cvc.cmd_vel>> ELSE <<>>,
                                            !.dt = cvc.dt, !.clear = cvc.clear]
                 /\ ref' = [error_x |-> set.goal_angle_, vel |-> last_cmd_vel_.angular[3],
                            max_vel |-> MAX_VEL_THETA, max_acc |-> MAX_ACC_THETA,
                            dt |-> cvc.dt, out |-> cvc.cmd_vel.angular[3], done |-> TRUE]
                 /\ UNCHANGED <<now, laser_data_available_, laser_scan_>>

\* The values a read below laser_scan_.ranges may return in this call, when
\* the call makes such a read; one value when it makes none.
OutOfBoundsReads(goal) ==
    IF /\ goal.frame_id = tracking_frame_
       /\ laser_data_available_
       /\ LoopStart(laser_scan_, setGoal(goal, goal_, goal_angle_).goal_angle_) < 0
    THEN OutOfBoundsValues
    ELSE {0}

Next ==
    \/ Advance
    \/ \E scan \in Scans : laserScanCallBack(scan)
    \/ \E goal \in GoalInputs : \E oob \in OutOfBoundsReads(goal) : MoveToGoal(goal, oob)

Spec == Init /\ [][Next]_vars

(***************************************************************************)
(* The planner in front of an obstacle that stays: the caller keeps        *)
(* calling MoveToGoal with accepted goals while time passes, and once the  *)
(* scan with the obstacle is stored, every later scan shows it too.        *)
(***************************************************************************)
BlockingScan == Scan("/front_laser", <<2000, 2000, 2000, 300, 2000, 2000, 2000, 2000>>, 200)
ClearScan == Scan("/front_laser", <<2000, 2000, 0, 5, 10, 500, 2000, 2000>>, 200)

\* Two goals of Goals along the x axis; their windows hold beam 3.
LiveGoals ==
    { [frame_id |-> "/base_link", pos |-> <<2000, 0, 0>>,  yaw |-> 300],
      [frame_id |-> "/base_link", pos |-> <<-2000, 0, 0>>, yaw |-> -300] }

LiveScanInputs == IF laser_scan_ = BlockingScan THEN {BlockingScan}
                                                 ELSE {ClearScan, BlockingScan}

\* The clock advances by half a second, as long as it stays within LiveMaxNow.
LiveStep == TicksPerSec \div 2

AdvanceLive ==
    /\ now + LiveStep <= LiveMaxNow
    /\ now' = now + LiveStep
    /\ UNCHANGED <<t_last_cmd_vel_, laser_data_available_, laser_scan_, goal_,
                   goal_angle_, last_cmd_vel_, trace, ref>>

ScanLive == \E scan \in LiveScanInputs : laserScanCallBack(scan)

TickLive == \E goal \in LiveGoals : MoveToGoal(goal, 0)

NextLive == AdvanceLive \/ ScanLive \/ TickLive

\* Time passes, and the caller calls MoveToGoal again and again.
SpecLive == Init /\ [][NextLive]_vars /\ WF_vars(AdvanceLive) /\ WF_vars(TickLive)

(***************************************************************************)
(* determineReference on its own: Init draws the arguments of one call,    *)
(* the action makes the call.                                              *)
(***************************************************************************)
RefErrors == {-1500, -300, -100, -10, 0, 10, 100, 300, 1500}
RefVels == {-400, -300, -150, -25, 0, 25, 150, 300, 400}
RefMaxVels == {120, 300}
RefMaxAccs == {100, 250}
RefDts == {0, 1, 2, 4}

InitRef ==
    /\ now = 0
    /\ t_last_cmd_vel_ = 0
    /\ laser_data_available_ = FALSE
    /\ laser_scan_ = NoScan
    /\ goal_ = Zero3
    /\ goal_angle_ = 0
    /\ last_cmd_vel_ = ZeroTwist
    /\ trace = NoTrace
    /\ \E e \in RefErrors, v \in RefVels, mv \in RefMaxVels, ma \in RefMaxAccs, dt \in RefDts :
          ref = [error_x |-> e, vel |-> v, max_vel |-> mv, max_acc |-> ma, dt |-> dt,
                 out |-> 0, done |-> FALSE]

CallReference ==
    /\ ~ref.done
    /\ ref' = [ref EXCEPT !.out = determineReference(ref.error_x, ref.vel, ref.max_vel,
                                                     ref.max_acc, ref.dt),
                          !.done = TRUE]
    /\ UNCHANGED <<now, t_last_cmd_vel_, laser_data_available_, laser_scan_, goal_,
                   goal_angle_, last_cmd_vel_, trace>>

SpecRef == InitRef /\ [][CallReference]_vars

(***************************************************************************)
(* Properties                                                              *)
(***************************************************************************)
\* The last handler call was a MoveToGoal that emitted a command.
Ticked == trace.op = "MoveToGoal" /\ trace.ret
\* The command it emitted.
Emitted == trace.published[1]

\* C1: on every tick with dt > 0 that emits a command, the emitted
\* translational velocity differs from the previous tick's by at most
\* MAX_ACC * dt in magnitude, whatever the goal and whether or not the path
\* is clear.
C1_TranslationalAccelerationBounded ==
    Ticked /\ trace.dt > 0 =>
        Length2(Sub(Emitted.linear, trace.prev.linear)) * TicksPerSec * TicksPerSec
            <= (MAX_ACC * trace.dt) * (MAX_ACC * trace.dt)

\* C1 witness: a tick with dt > 0 on a blocked path that slows a moving robot
\* down by exactly MAX_ACC * dt.
C1_Witness ==
    /\ Ticked /\ trace.dt > 0 /\ ~trace.clear
    /\ trace.prev.linear # Zero3
    /\ Emitted.linear # Zero3
    /\ Length2(Sub(Emitted.linear, trace.prev.linear)) * TicksPerSec * TicksPerSec
           = (MAX_ACC * trace.dt) * (MAX_ACC * trace.dt)

\* C2: starting from a zero last command, the magnitude of every emitted (and
\* stored) translational velocity is at most MAX_VEL.
C2_TranslationalVelocityBounded ==
    /\ Length2(last_cmd_vel_.linear) <= MAX_VEL * MAX_VEL
    /\ \A i \in 1..Len(trace.published) :
          Length2(trace.published[i].linear) <= MAX_VEL * MAX_VEL

\* C2 witness: a tick toward a far goal on a clear path emits exactly MAX_VEL.
C2_Witness ==
    /\ Ticked /\ trace.clear
    /\ Length2(trace.set_goal) > MAX_VEL * MAX_VEL
    /\ Length2(Emitted.linear) = MAX_VEL * MAX_VEL

\* C3 (as claimed): every determineReference call with dt > 0 returns a
\* velocity that differs from previousVelocity by at most maxAcc * dt, also
\* when error and previousVelocity have opposite signs.
C3_ReferenceStepBounded ==
    ref.done /\ ref.dt > 0 =>
        Abs(ref.out - ref.vel) * TicksPerSec <= ref.max_acc * ref.dt

\* C4 (as claimed): every determineReference call returns a velocity of
\* magnitude at most maxVel, for every previousVelocity.
C4_ReferenceWithinMaxVel == ref.done => Abs(ref.out) <= ref.max_vel

\* C4 (amended): every determineReference call (maxAcc > 0, dt >= 0) returns a
\* velocity of magnitude at most max(maxVel, |previousVelocity|); so at most
\* maxVel whenever |previousVelocity| <= maxVel.
C4_ReferenceWithinMaxVelOrPrevious ==
    ref.done => Abs(ref.out) <= Max(ref.max_vel, Abs(ref.vel))

\* C4 witness: a call below maxVel whose acceleration step is cut at maxVel.
C4_Witness ==
    /\ ref.done
    /\ Abs(ref.vel) < ref.max_vel
    /\ Abs(ref.vel) * TicksPerSec + ref.max_acc * ref.dt > ref.max_vel * TicksPerSec
    /\ Abs(ref.out) = ref.max_vel

\* The window of C5 and C6: indexGoal = numReadings/2 + round(goalAngle /
\* angleIncrement), halfWidth = round(atan2(robotRadius, wallStandoff) /
\* angleIncrement), [indexGoal - halfWidth, indexGoal + halfWidth) clamped to
\* [0, numReadings).  Beams are numbered from 0.
RoundedWindow(scan, goal_angle) ==
    LET indexGoal == Len(scan.ranges) \div 2 + RoundDiv(goal_angle, scan.angle_increment)
        halfWidth == RoundDiv(Atan2(RADIUS_ROBOT, DISTANCE_VIRTUAL_WALL),
                              1000 * scan.angle_increment)
    IN  { j \in 0..(Len(scan.ranges) - 1) : indexGoal - halfWidth <= j /\ j < indexGoal + halfWidth }

\* The same window with both quotients truncated toward zero.
TruncatedWindow(scan, goal_angle) ==
    LET indexGoal == Len(scan.ranges) \div 2 + TruncDiv(goal_angle, scan.angle_increment)
        halfWidth == TruncDiv(Atan2(RADIUS_ROBOT, DISTANCE_VIRTUAL_WALL),
                              1000 * scan.angle_increment)
    IN  { j \in 0..(Len(scan.ranges) - 1) : indexGoal - halfWidth <= j /\ j < indexGoal + halfWidth }

Beam(scan, j) == scan.ranges[j + 1]

\* C5 (as claimed): isClearLine returns true whenever every reading inside the
\* window is >= the stand-off distance or <= 0.01, whatever the readings
\* outside the window are.
C5_ClearWindowIsClear ==
    /\ Ticked /\ laser_data_available_
    /\ \A j \in RoundedWindow(laser_scan_, goal_angle_) :
          \/ Beam(laser_scan_, j) >= DISTANCE_VIRTUAL_WALL
          \/ Beam(laser_scan_, j) <= MIN_RANGE
    => trace.clear

\* C6 (as claimed): isClearLine returns false whenever a reading r with
\* 0.01 < r < stand-off lies inside the window computed with round().
C6_ObstacleInRoundedWindowBlocks ==
    /\ Ticked /\ laser_data_available_
    /\ \E j \in RoundedWindow(laser_scan_, goal_angle_) :
          Beam(laser_scan_, j) > MIN_RANGE /\ Beam(laser_scan_, j) < DISTANCE_VIRTUAL_WALL
    => ~trace.clear

\* C6 (amended): isClearLine returns false whenever a reading r with
\* 0.01 < r < stand-off lies inside the window [indexGoal - halfWidth,
\* indexGoal + halfWidth) clamped to [0, numReadings), where indexGoal =
\* numReadings/2 + trunc(goalAngle / angleIncrement) and halfWidth =
\* trunc(atan2(robotRadius, wallStandoff) / angleIncrement), trunc being
\* truncation toward zero.
C6_ObstacleInTruncatedWindowBlocks ==
    /\ Ticked /\ laser_data_available_
    /\ \E j \in TruncatedWindow(laser_scan_, goal_angle_) :
          Beam(laser_scan_, j) > MIN_RANGE /\ Beam(laser_scan_, j) < DISTANCE_VIRTUAL_WALL
    => ~trace.clear

\* C6 witness: a tick with an obstacle inside the truncated window, found
\* not clear, where no reading lies below the window's first beam.
C6_Witness ==
    /\ Ticked /\ laser_data_available_ /\ ~trace.clear
    /\ \E j \in TruncatedWindow(laser_scan_, goal_angle_) :
          /\ Beam(laser_scan_, j) > MIN_RANGE /\ Beam(laser_scan_, j) < DISTANCE_VIRTUAL_WALL
          /\ \A k \in 0..(j - 1) : Beam(laser_scan_, k) >= DISTANCE_VIRTUAL_WALL

\* C7: as long as no scan of the front laser has been accepted, isClearLine
\* returns false on every tick and the tick zeroes the translational goal.
C7_NoScanMeansBlocked ==
    Ticked /\ ~laser_data_available_ => ~trace.clear /\ goal_ = Zero3

\* C7 witness: a tick without laser data whose accepted goal was not at the
\* origin.
C7_Witness ==
    /\ Ticked /\ ~laser_data_available_
    /\ trace.set_goal # Zero3
    /\ goal_ = Zero3

C9_FrameMismatchLeavesState ==
    [][trace'.op = "MoveToGoal" =>
          IF trace'.goal_in.frame_id # tracking_frame_
          THEN /\ ~trace'.set_ok
               /\ ~trace'.ret
               /\ trace'.published = <<>>
               /\ UNCHANGED <<goal_, goal_angle_, last_cmd_vel_, t_last_cmd_vel_>>
          ELSE /\ trace'.set_ok
               /\ trace'.ret
               /\ Len(trace'.published) = 1]_vars

\* C9 witness: a goal in another frame was rejected while a goal, a goal angle
\* and a command from an earlier tick were stored.
C9_Witness ==
    /\ trace.op = "MoveToGoal"
    /\ trace.goal_in.frame_id # tracking_frame_
    /\ ~trace.ret
    /\ last_cmd_vel_.linear # Zero3
    /\ goal_angle_ # 0
    /\ goal_ # trace.goal_in.pos

\* C10: after every accepted setGoal the stored goal angle is 0 when the input
\* yaw is below MIN_ANGLE in magnitude and the input yaw otherwise, hence 0 or
\* of magnitude >= MIN_ANGLE, and the stored position is the input position.
C10_GoalStoredWithDeadBand ==
    trace.op = "MoveToGoal" /\ trace.set_ok =>
        /\ trace.set_angle = IF Abs(trace.goal_in.yaw) * MIN_ANGLE_DEN < MIN_ANGLE_NUM
                             THEN 0 ELSE trace.goal_in.yaw
        /\ \/ trace.set_angle = 0
           \/ Abs(trace.set_angle) * MIN_ANGLE_DEN >= MIN_ANGLE_NUM
        /\ trace.set_goal = trace.goal_in.pos
        /\ goal_angle_ = trace.set_angle

\* C10 witness: a goal with a nonzero yaw below MIN_ANGLE was accepted and its
\* angle stored as 0.
C10_Witness ==
    /\ trace.op = "MoveToGoal" /\ trace.set_ok
    /\ trace.goal_in.yaw # 0
    /\ trace.set_angle = 0
    /\ trace.set_goal # Zero3

\* C11 (as claimed): every determineReference call with previousVelocity # 0
\* and sign(previousVelocity) # sign(error) takes the decelerate branch and
\* returns a magnitude strictly below |previousVelocity|, or exactly 0.
C11_OpposingVelocityShrinks ==
    ref.done /\ ref.vel # 0 /\ Sign(ref.vel) # Sign(ref.error_x) =>
        /\ Branch(ref.error_x, ref.vel, ref.max_vel, ref.max_acc, ref.dt) = "dec"
        /\ Abs(ref.out) < Abs(ref.vel) \/ ref.out = 0

\* C11 (amended): the same for the calls with dt > 0 (maxAcc > 0); with
\* dt = 0 the decelerate branch is taken and leaves the magnitude unchanged.
C11_OpposingVelocityShrinksInTime ==
    ref.done /\ ref.vel # 0 /\ Sign(ref.vel) # Sign(ref.error_x) =>
        /\ Branch(ref.error_x, ref.vel, ref.max_vel, ref.max_acc, ref.dt) = "dec"
        /\ IF ref.dt > 0 THEN Abs(ref.out) < Abs(ref.vel) \/ ref.out = 0
                         ELSE Abs(ref.out) = Abs(ref.vel) \/ ref.out = 0

\* C11 witness: a call with the error opposite to the velocity and farther
\* away than the deceleration distance, whose output is smaller and not 0.
C11_Witness ==
    /\ ref.done /\ ref.dt > 0
    /\ ref.vel * ref.error_x < 0
    /\ ~DecDistReaches(ref.error_x, ref.vel, ref.max_acc)
    /\ 0 < Abs(ref.out) /\ Abs(ref.out) < Abs(ref.vel)

\* The magnitude max(|previousVelocity| - maxAcc*dt, 0), snapped to 0 when it
\* is below 0.5*maxAcc*dt.
RampedDown(vel, max_acc, dt) ==
    LET m == Max(Abs(vel) - AccTimesDt(max_acc, dt), 0)
    IN  IF BelowEps(m, max_acc, dt) THEN 0 ELSE m

\* C12 (as claimed): a determineReference call with error = 0 and a nonzero
\* previousVelocity returns a velocity in the direction of previousVelocity
\* of magnitude max(|previousVelocity| - maxAcc*dt, 0) (0 when that is below
\* 0.5*maxAcc*dt): it ramps down, it does not stop at once.
C12_ZeroErrorRampsDown ==
    ref.done /\ ref.error_x = 0 /\ ref.vel # 0 =>
        ref.out = Sign(ref.vel) * RampedDown(ref.vel, ref.max_acc, ref.dt)

\* C13: every determineReference call with previousVelocity = 0 and
\* |error| <= 0.5*maxAcc*dt returns exactly 0.
C13_StillReturnsZero ==
    ref.done /\ ref.vel = 0 /\ ~AboveEps(Abs(ref.error_x), ref.max_acc, ref.dt) =>
        ref.out = 0

\* C13 witness: such a call with a nonzero error.
C13_Witness ==
    /\ ref.done /\ ref.vel = 0 /\ ref.error_x # 0 /\ ref.dt > 0
    /\ ~AboveEps(Abs(ref.error_x), ref.max_acc, ref.dt)
    /\ ref.out = 0

\* C14 (as claimed): in every emitted command linear.z, angular.x and
\* angular.y are 0, also for goals whose position has a nonzero z.
C14_CommandIsPlanar ==
    \A i \in 1..Len(trace.published) :
        /\ trace.published[i].linear[3] = 0
        /\ trace.published[i].angular[1] = 0
        /\ trace.published[i].angular[2] = 0

\* The step is a call of laserScanCallBack / a tick of MoveToGoal that emitted
\* a command (the clock stands still during a handler).
ScanStep == now' = now /\ trace'.op = "laserScanCallBack"
TickStep == now' = now /\ trace'.op = "MoveToGoal" /\ trace'.ret

\* C15: a scan in another frame than the front laser's leaves the stored scan
\* and the scan-available flag unchanged; a scan in that frame replaces the
\* stored scan and sets the flag; once set, the flag is never cleared.
C15_ScanFrameFilter ==
    [][/\ laser_data_available_ => laser_data_available_'
       /\ ScanStep =>
            IF trace'.scan_in.frame_id = front_laser_frame
            THEN laser_scan_' = trace'.scan_in /\ laser_data_available_'
            ELSE UNCHANGED <<laser_scan_, laser_data_available_>>]_vars

\* C15 witness: a scan in another frame arrived after a front-laser scan was
\* stored, and the stored scan is still the other one.
C15_Witness ==
    /\ trace.op = "laserScanCallBack"
    /\ trace.scan_in.frame_id # front_laser_frame
    /\ laser_data_available_
    /\ laser_scan_.frame_id = front_laser_frame
    /\ laser_scan_ # trace.scan_in

\* C16 (as claimed): on every tick that reaches the velocity computation dt is
\* the clock time minus the stored previous-tick time, and afterwards the
\* stored previous-tick time is the clock time.
C16_DtIsElapsedTime ==
    [][TickStep => /\ trace'.dt = now - t_last_cmd_vel_
                   /\ t_last_cmd_vel_' = now]_vars

\* C17 (as claimed): every index at which isClearLine reads the stored scan's
\* ranges lies in [0, numReadings), whatever the goal angle.
C17_ReadsWithinScan ==
    Ticked /\ laser_data_available_ =>
        \A oob \in OutOfBoundsValues :
            \A j \in IndicesRead(LoopStart(laser_scan_, goal_angle_),
                                 LoopEnd(laser_scan_, goal_angle_), laser_scan_, oob) :
                0 <= j /\ j < Len(laser_scan_.ranges)

\* C18: a tick that emits a command stores it as the last command, and the
\* command is the one determineDesiredVelocity computes with the last command
\* of the tick before as previous velocity, translational and rotational; no
\* other step changes the last command.
C18_LastCommandIsFeedback ==
    [][IF TickStep
       THEN /\ last_cmd_vel_' = trace'.published[1]
            /\ trace'.published[1].linear
                  = LimitedVelocity(goal_', last_cmd_vel_.linear, trace'.dt)
            /\ trace'.published[1].angular[3]
                  = determineReference(goal_angle_', last_cmd_vel_.angular[3],
                                       MAX_VEL_THETA, MAX_ACC_THETA, trace'.dt)
       ELSE UNCHANGED last_cmd_vel_]_vars

\* C18 witness: a tick whose previous command was nonzero in translation and
\* rotation emitted a different command, which is now the last command.
C18_Witness ==
    /\ Ticked
    /\ trace.prev.linear # Zero3 /\ trace.prev.angular[3] # 0
    /\ Emitted.linear # trace.prev.linear
    /\ Emitted.angular[3] # trace.prev.angular[3]
    /\ last_cmd_vel_ = Emitted

\* C20: starting from a zero last command, the magnitude of every emitted (and
\* stored) rotational rate angular.z is at most MAX_VEL_THETA.
C20_RotationalVelocityBounded ==
    /\ Abs(last_cmd_vel_.angular[3]) <= MAX_VEL_THETA
    /\ \A i \in 1..Len(trace.published) :
          Abs(trace.published[i].angular[3]) <= MAX_VEL_THETA

\* C20 witness: a tick that found the rotation at MAX_VEL_THETA with the goal
\* angle still ahead, and emitted MAX_VEL_THETA again.
C20_Witness ==
    /\ Ticked /\ trace.dt > 0
    /\ Abs(trace.prev.angular[3]) = MAX_VEL_THETA
    /\ trace.prev.angular[3] * goal_angle_ > 0
    /\ Emitted.angular[3] = trace.prev.angular[3]

\* The obstacle is stored, and the clock has enough ticks left for a robot at
\* MAX_VEL to be slowed down to 0 at MAX_ACC (the clock of the model stops
\* within LiveStep of LiveMaxNow; a tick reads twice the clock).
BlockedFromNowOn ==
    /\ laser_scan_ = BlockingScan
    /\ 2 * MAX_ACC * (LiveMaxNow - LiveStep + 1 - now) >= MAX_VEL * TicksPerSec

\* C19: if from some tick on every tick has an accepted goal and a path that
\* is not clear, while time passes, then the emitted translational speed never
\* increases from one such tick to the next (so a speed of 0 stays 0) and
\* becomes exactly 0 after finitely many ticks.
C19_BlockedRobotStops ==
    /\ [][TickStep /\ ~trace'.clear =>
             Length2(last_cmd_vel_'.linear) <= Length2(last_cmd_vel_.linear)]_vars
    /\ BlockedFromNowOn ~> (last_cmd_vel_.linear = Zero3)

\* C19 witness: a blocked tick in front of the obstacle that found the robot
\* below MAX_VEL, on its way down, and emitted zero translation.
C19_Witness ==
    /\ Ticked /\ ~trace.clear /\ trace.dt > 0
    /\ laser_scan_ = BlockingScan
    /\ trace.prev.linear # Zero3
    /\ Length2(trace.prev.linear) < MAX_VEL * MAX_VEL
    /\ Emitted.linear = Zero3

====
